---- MODULE Spec2Model ----
(***************************************************************************)
(* Ride lifecycle synchronisation layer of the CashRide client:            *)
(*   - the ride store (zustand)            frontend/src/store/rideStore.js *)
(*   - the socket service singleton        services/socket.service         *)
(*   - the hooks useAuth / useSocket                                       *)
(*   - the pages BookRide, RideTracking (passenger), AcceptRide (driver)   *)
(*   - the LocationPicker component (debounced place search)               *)
(*   - the hook useGeolocation and the route guard ProtectedRoute          *)
(* A JavaScript value that may be null is a sequence of length <= 1:       *)
(* <<>> is null, <<v>> is the value v.  A missing object field is Undef.   *)
(***************************************************************************)
EXTENDS Naturals, Sequences, FiniteSets, TLC

\* ------------------------------------------------------------------ bounds
MaxSockets == 2
MaxListeners == 2
MaxRest == 2
MaxHistory == 1
MaxTimers == 4
MaxBuffer == 1
MaxWatches == 2
MaxEvents == 3
MaxRedirects == 5

\* ------------------------------------------------------------------ values
Null == <<>>
Some(v) == <<v>>
Get(o) == o[1]
Undef == "undefined"

REQUESTED == "requested"
ACCEPTED == "accepted"
IN_PROGRESS == "in_progress"
COMPLETED == "completed"
CANCELLED == "cancelled"
RIDE_STATUS == {REQUESTED, ACCEPTED, IN_PROGRESS, COMPLETED, CANCELLED}

RideIds == {"41", "42"}
\* The id the backend gives to a ride this client requests.
NewRideIds == {"42"}
DriverIds == {"7"}
Tokens == {"tok"}
UserTypes == {"passenger", "driver"}

\* A ride object as the backend returns it, reduced to the fields the
\* synchronisation layer reads: id, status, driver_id.
Ride(id, status, drv) == [id |-> id, status |-> status, driver_id |-> drv]
Rides == {Ride(i, s, d) : i \in RideIds, s \in RIDE_STATUS, d \in DriverIds \cup {Undef}}

\* Template literals `ride_${rideId}_update` and `driver_${id}_location`;
\* an undefined id is formatted as the text "undefined".
RideTopic(id) == "ride_" \o id \o "_update"
DriverTopic(id) == "driver_" \o id \o "_location"

VARIABLES
  \* rideStore.js
  currentRide, rideHistory, nearbyDrivers,
  \* SocketService: this.socket (0 is null, else an index into conns) and
  \* every connection object io() has created
  socket, conns,
  \* what the last step was: the call an API client made on the store, the
  \* REST call whose handler resumed and how it ended, the realtime message
  \* that was delivered; and the handlers a delivered message invoked
  lastCall, invoked,
  \* the packets emit() has sent that reached the server
  received,
  \* authStore
  user, token, isAuthenticated,
  \* the page the router renders and its :rideId parameter
  view, rideId,
  \* locationStore.js
  pickupLocation, dropoffLocation,
  \* BookRide: useState loading, step
  bookLoading, step,
  \* RideTracking: useState ride, driver, showCancelModal, loading
  ride, driver, showCancelModal, loading,
  \* AcceptRide: useState ride, loading
  drvRide, drvLoading,
  \* REST calls in flight
  rest,
  \* LocationPicker: useState query, suggestions, loading
  query, suggestions, pickLoading,
  \* the debounce timers that are armed, the place lookups in flight and the
  \* number of times the effect on [query] has called searchLocations
  timers, lookups, calls,
  \* the geocode requests in flight and the calls the picker has made of its
  \* onLocationSelect prop
  geocodes, notified,
  \* locationStore.js currentLocation
  currentLocation,
  \* useGeolocation: useState error, loading; whether a component using the
  \* hook is mounted; the watchId of its effect (0: none)
  geoError, geoLoading, geoMounted, watchId,
  \* the watches registered with navigator.geolocation, and the callbacks
  \* the browser has made so far, in order
  watches, events,
  \* the router: the locations a request has led through so far (the last one
  \* is the current location) and the page rendered for it (null until the
  \* route's element has rendered one)
  chain, page

storeVars == <<currentRide, rideHistory, nearbyDrivers>>
geoVars == <<currentLocation, geoError, geoLoading, geoMounted, watchId, watches, events>>
searchVars == <<query, suggestions, pickLoading, timers, lookups, calls, geocodes, notified>>
sockVars == <<socket, conns, invoked, received>>
routeVars == <<chain, page>>

\* ------------------------------------------------------------- rideStore.js
setCurrentRide(r) == Some(r)

\* An update that would drop a ride which already has the status.
updateRideStatusOnce(cur, status) ==
  IF cur # Null /\ Get(cur).status # status
  THEN Some([Get(cur) EXCEPT !.status = status]) ELSE Null

updateRideStatus(cur, status) ==
  IF cur # Null THEN Some([Get(cur) EXCEPT !.status = status]) ELSE Null

addToHistory(hist, r) == <<r>> \o hist

NoCall == [op |-> "none", arg |-> ""]

StoreSetCurrentRide(r) ==
  /\ currentRide' = setCurrentRide(r)
  /\ lastCall' = [op |-> "setCurrentRide", arg |-> r.status]
  /\ UNCHANGED <<rideHistory, nearbyDrivers>>

StoreUpdateRideStatus(status) ==
  /\ currentRide' = updateRideStatus(currentRide, status)
  /\ lastCall' = [op |-> "updateRideStatus", arg |-> status]
  /\ UNCHANGED <<rideHistory, nearbyDrivers>>

StoreSetNearbyDrivers(drivers) ==
  /\ nearbyDrivers' = drivers
  /\ lastCall' = [op |-> "setNearbyDrivers", arg |-> ""]
  /\ UNCHANGED <<currentRide, rideHistory>>

StoreAddToHistory(r) ==
  /\ Len(rideHistory) < MaxHistory
  /\ rideHistory' = addToHistory(rideHistory, r)
  /\ lastCall' = [op |-> "addToHistory", arg |-> r.status]
  /\ UNCHANGED <<currentRide, nearbyDrivers>>

StoreClearCurrentRide ==
  /\ currentRide' = Null
  /\ lastCall' = [op |-> "clearCurrentRide", arg |-> ""]
  /\ UNCHANGED <<rideHistory, nearbyDrivers>>

\* ------------------------------------------------------------ SocketService
\* A connection object as io() returns it.  status: "connecting" until the
\* transport is up, "connected", "disconnected" after a transport loss (the
\* transport retries on its own), "closed" after socket.disconnect().
\* listeners is the emitter's callback list, in registration order;
\* sendBuffer holds the packets emitted while the socket was not connected.
Listener(topic, handler) == [topic |-> topic, handler |-> handler]
NewConn(tok) ==
  [status |-> "connecting", token |-> tok, listeners |-> <<>>, sendBuffer |-> <<>>]

RECURSIVE RemoveTopic(_, _)
\* The listeners of cs whose topic differs from topic (Emitter.off(event)).
RemoveTopic(ls, topic) ==
  IF ls = <<>> THEN <<>>
  ELSE IF Head(ls).topic = topic THEN RemoveTopic(Tail(ls), topic)
       ELSE <<Head(ls)>> \o RemoveTopic(Tail(ls), topic)

RECURSIVE HandlersFor(_, _)
\* The handlers Emitter.emit(topic) calls, in registration order.
HandlersFor(ls, topic) ==
  IF ls = <<>> THEN <<>>
  ELSE IF Head(ls).topic = topic THEN <<Head(ls).handler>> \o HandlersFor(Tail(ls), topic)
       ELSE HandlersFor(Tail(ls), topic)

\* A closed connection object is garbage: its slot in conns is free again.
FreeSlots(cs) == {i \in 1..Len(cs) : cs[i].status = "closed"}
Min(S) == CHOOSE x \in S : \A y \in S : x <= y

\* connect(token): this.socket = io(url, {auth}); the previous this.socket,
\* if any, is only dereferenced.
connectSocket(cs, sock) == IF FreeSlots(cs) = {} THEN Len(cs) + 1 ELSE Min(FreeSlots(cs))
connectConns(cs, tok) ==
  IF FreeSlots(cs) = {} THEN Append(cs, NewConn(tok))
  ELSE [cs EXCEPT ![Min(FreeSlots(cs))] = NewConn(tok)]

\* disconnect(): if (this.socket) { this.socket.disconnect(); this.socket = null }
disconnectConns(cs, sock) ==
  IF sock # 0 THEN [cs EXCEPT ![sock].status = "closed"] ELSE cs
disconnectSocket(sock) == 0

\* on(event, callback): if (this.socket) this.socket.on(event, callback)
onConns(cs, sock, topic, handler) ==
  IF sock # 0
  THEN [cs EXCEPT ![sock].listeners = Append(cs[sock].listeners, Listener(topic, handler))]
  ELSE cs

\* off(event): if (this.socket) this.socket.off(event)
offConns(cs, sock, topic) ==
  IF sock # 0
  THEN [cs EXCEPT ![sock].listeners = RemoveTopic(cs[sock].listeners, topic)]
  ELSE cs

\* A connection that exists and was not torn down.
Live(c) == c.status # "closed"
LiveConns == {i \in 1..Len(conns) : Live(conns[i])}

\* The transport: connection establishment, loss and automatic retry.
TransportUp(i) ==
  /\ conns[i].status = "connecting"
  /\ conns' = [conns EXCEPT ![i].status = "connected", ![i].sendBuffer = <<>>]
  /\ received' = received \cup {conns[i].sendBuffer[k] : k \in 1..Len(conns[i].sendBuffer)}

\* A transport loss that would also clear the callback list.
TransportDownDropsHandlers(i) ==
  /\ conns[i].status = "connected"
  /\ conns' = [conns EXCEPT ![i].status = "disconnected", ![i].listeners = <<>>]
  /\ UNCHANGED received

TransportDown(i) ==
  /\ conns[i].status = "connected"
  /\ conns' = [conns EXCEPT ![i].status = "disconnected"]
  /\ UNCHANGED received

TransportRetry(i) ==
  /\ conns[i].status = "disconnected"
  /\ conns' = [conns EXCEPT ![i].status = "connecting"]
  /\ UNCHANGED received

\* emit(event, data): if (this.socket) this.socket.emit(event, data).  The
\* socket sends the packet at once when it is connected and keeps it in its
\* send buffer otherwise.  A packet records whether the socket was connected
\* when emit was called.
Packet(event, connected) == [event |-> event, connected |-> connected]

emitConns(cs, sock, event) ==
  IF sock # 0 /\ cs[sock].status # "connected"
  THEN [cs EXCEPT ![sock].sendBuffer = Append(cs[sock].sendBuffer, Packet(event, FALSE))]
  ELSE cs

emitReceived(rcv, cs, sock, event) ==
  IF sock # 0 /\ cs[sock].status = "connected" THEN rcv \cup {Packet(event, TRUE)} ELSE rcv

\* A message the server pushes reaches a socket only while it is connected;
\* the socket then calls every listener of the topic.
Delivered(cs, i, topic) ==
  IF cs[i].status = "connected" THEN HandlersFor(cs[i].listeners, topic) ELSE <<>>

\* ------------------------------------------- the socket service on its own
Handlers == {"h1", "h2"}
SockEvents == {"location_update"}
SockTopics == {RideTopic("42"), DriverTopic("7")}

CanConnect == Len(conns) < MaxSockets \/ FreeSlots(conns) # {}

SockConnect(tok) ==
  /\ CanConnect
  /\ conns' = connectConns(conns, tok)
  /\ socket' = connectSocket(conns, socket)
  /\ UNCHANGED <<invoked, received>>

SockDisconnect ==
  /\ conns' = disconnectConns(conns, socket)
  /\ socket' = disconnectSocket(socket)
  /\ UNCHANGED <<invoked, received>>

SockOn(topic, handler) ==
  /\ socket # 0 => Len(conns[socket].listeners) < MaxListeners
  /\ conns' = onConns(conns, socket, topic, handler)
  /\ UNCHANGED <<socket, invoked, received>>

SockOff(topic) ==
  /\ conns' = offConns(conns, socket, topic)
  /\ UNCHANGED <<socket, invoked, received>>

SockEmit(event) ==
  /\ socket # 0 => Len(conns[socket].sendBuffer) < MaxBuffer
  /\ conns' = emitConns(conns, socket, event)
  /\ received' = emitReceived(received, conns, socket, event)
  /\ UNCHANGED <<socket, invoked>>

SockTransportUp ==
  /\ \E i \in 1..Len(conns) : TransportUp(i)
  /\ UNCHANGED <<socket, invoked>>

SockTransportDown ==
  /\ \E i \in 1..Len(conns) : TransportDown(i)
  /\ UNCHANGED <<socket, invoked>>

SockTransportRetry ==
  /\ \E i \in 1..Len(conns) : TransportRetry(i)
  /\ UNCHANGED <<socket, invoked>>

\* The server pushes a message on a topic to a connection.
SockDeliver ==
  /\ \E i \in 1..Len(conns), t \in SockTopics :
       /\ conns[i].status = "connected"
       /\ invoked' = Delivered(conns, i, t)
  /\ UNCHANGED <<socket, conns, received>>

\* ------------------------------------------------------------------ the app
\* The application state as one record w, so that a handler is a function
\* from state to state and a navigation is the unmount of one page composed
\* with the mount of the next.  The fields are the VARIABLES of the same name.
World ==
  [currentRide |-> currentRide, socket |-> socket, conns |-> conns, rest |-> rest,
   user |-> user, token |-> token, isAuthenticated |-> isAuthenticated,
   view |-> view, rideId |-> rideId,
   pickupLocation |-> pickupLocation, dropoffLocation |-> dropoffLocation,
   bookLoading |-> bookLoading, step |-> step,
   ride |-> ride, driver |-> driver, showCancelModal |-> showCancelModal,
   loading |-> loading, drvRide |-> drvRide, drvLoading |-> drvLoading]

SetWorld(w) ==
  /\ currentRide' = w.currentRide
  /\ socket' = w.socket
  /\ conns' = w.conns
  /\ rest' = w.rest
  /\ user' = w.user
  /\ token' = w.token
  /\ isAuthenticated' = w.isAuthenticated
  /\ view' = w.view
  /\ rideId' = w.rideId
  /\ pickupLocation' = w.pickupLocation
  /\ dropoffLocation' = w.dropoffLocation
  /\ bookLoading' = w.bookLoading
  /\ step' = w.step
  /\ ride' = w.ride
  /\ driver' = w.driver
  /\ showCancelModal' = w.showCancelModal
  /\ loading' = w.loading
  /\ drvRide' = w.drvRide
  /\ drvLoading' = w.drvLoading

\* A REST call in flight: the handler that made it is suspended at its await
\* and resumes when the backend answers "ok" (the promise resolves) or "fail"
\* (it rejects).  arg is the ride id of the URL (the user type for a login);
\* ride is the ride the handler's closure captured; from is the page whose
\* component made the call and mounted says whether that component is still
\* mounted.
Call(op, from, arg, r) ==
  [op |-> op, from |-> from, arg |-> arg, ride |-> r, mounted |-> TRUE]


Issue(w, c) == [w EXCEPT !.rest = w.rest \cup {c}]
Settle(w, c) == [w EXCEPT !.rest = w.rest \ {c}]

\* The calls of a page outlive it: their handlers resume in a component that
\* is no longer mounted.
Orphan(w, v) ==
  [w EXCEPT !.rest = {IF c.from = v THEN [c EXCEPT !.mounted = FALSE] ELSE c : c \in w.rest}]

\* useSocket: effect and cleanup (part_006 lines 48-56).
useSocketEffect(w) ==
  IF w.isAuthenticated /\ w.token # Null
  THEN [w EXCEPT !.conns = connectConns(w.conns, Get(w.token)),
                 !.socket = connectSocket(w.conns, w.socket)]
  ELSE w

useSocketCleanup(w) ==
  [w EXCEPT !.conns = disconnectConns(w.conns, w.socket),
            !.socket = disconnectSocket(w.socket)]

RideDriverId(r) == IF r = Null THEN Undef ELSE Get(r).driver_id

\* RideTracking: the effect keyed on rideId (part_011 lines 22-33) after the
\* useSocket effect, with the component's initial state.
RideTrackingMount(w, id) ==
  LET w1 == useSocketEffect([w EXCEPT !.view = "tracking", !.rideId = id,
                                      !.ride = Null, !.driver = Null,
                                      !.showCancelModal = FALSE, !.loading = TRUE])
      w2 == Issue(w1, Call("getRideStatus", "tracking", id, Null))
      c1 == onConns(w2.conns, w2.socket, RideTopic(id), "onRideUpdate")
      c2 == onConns(c1, w2.socket, DriverTopic(RideDriverId(w2.ride)), "onDriverLocation")
  IN [w2 EXCEPT !.conns = c2]

\* RideTracking unmounts: the cleanups in declaration order (useSocket's
\* disconnect, then the two socket.off of lines 34-37, whose driver topic is
\* the one the effect's closure saw, ride being null then).
RideTrackingUnmount(w) ==
  LET w1 == useSocketCleanup(w)
      c1 == offConns(w1.conns, w1.socket, RideTopic(w.rideId))
      c2 == offConns(c1, w1.socket, DriverTopic(Undef))
  IN Orphan([w1 EXCEPT !.conns = c2, !.ride = Null, !.driver = Null,
                       !.showCancelModal = FALSE, !.loading = TRUE, !.rideId = ""],
            "tracking")

\* The topics on which the socket the service holds has a listener calling
\* handler.
TopicsWith(w, handler) ==
  IF w.socket = 0 THEN {}
  ELSE {w.conns[w.socket].listeners[k].topic :
          k \in {j \in 1..Len(w.conns[w.socket].listeners) :
                   w.conns[w.socket].listeners[j].handler = handler}}

\* The topic `driver_${ride?.driver_id}_location` as the closure of the last
\* run of the effect formatted it: the one its socket.on was called with.
EffectDriverTopic(w) ==
  IF TopicsWith(w, "onDriverLocation") = {} THEN DriverTopic(Undef)
  ELSE CHOOSE t \in TopicsWith(w, "onDriverLocation") : TRUE

\* RideTracking stays mounted while the rideId of its route changes: the
\* effect keyed on [rideId] is cleaned up with the closure of its last run and
\* runs again with the closure of this render, whose ride is the one displayed
\* (part_011 lines 22-38).  useSocket's effect does not run again, and the
\* component's state is kept.
RideTrackingRerun(w, id) ==
  LET c1 == offConns(w.conns, w.socket, RideTopic(w.rideId))
      c2 == offConns(c1, w.socket, EffectDriverTopic(w))
      w1 == Issue([w EXCEPT !.rideId = id], Call("getRideStatus", "tracking", id, Null))
      c3 == onConns(c2, w1.socket, RideTopic(id), "onRideUpdate")
      c4 == onConns(c3, w1.socket, DriverTopic(RideDriverId(w1.ride)), "onDriverLocation")
  IN [w1 EXCEPT !.conns = c4]

\* AcceptRide: the effect keyed on rideId (part_008 lines 15-17).
AcceptRideMount(w, id) ==
  Issue([w EXCEPT !.view = "driverRide", !.rideId = id, !.drvRide = Null, !.drvLoading = TRUE],
        Call("getRideStatus", "driverRide", id, Null))

AcceptRideUnmount(w) ==
  Orphan([w EXCEPT !.drvRide = Null, !.drvLoading = TRUE, !.rideId = ""], "driverRide")

BookRideMount(w) == [w EXCEPT !.view = "book", !.bookLoading = FALSE, !.step = 1]
BookRideUnmount(w) == Orphan([w EXCEPT !.bookLoading = FALSE, !.step = 1], "book")

Unmount(w) ==
  CASE w.view = "tracking" -> RideTrackingUnmount(w)
    [] w.view = "driverRide" -> AcceptRideUnmount(w)
    [] w.view = "book" -> BookRideUnmount(w)
    [] OTHER -> Orphan(w, w.view)

\* ProtectedRoute (part_000 lines 22-34) in front of the routes of lines
\* 44-102: the page a route renders for the signed-in user, "login" when
\* nobody is signed in.  A role that is not allowed is sent to "/", which
\* renders the passenger's home, and nothing ("none") for any other role.
RouteRoles(v) == IF v \in {"home", "book", "tracking"} THEN {"passenger"} ELSE {"driver"}

ProtectedRoute(w, v) ==
  IF ~w.isAuthenticated THEN "login"
  ELSE IF w.user # Null /\ Get(w.user) \in RouteRoles(v) THEN v
  ELSE IF w.user # Null /\ Get(w.user) \in RouteRoles("home") THEN "home"
  ELSE "none"

\* navigate(route): the current page unmounts and the page of the route mounts.
Navigate(w, v, id) ==
  LET target == ProtectedRoute(w, v)
      w1 == Unmount(w)
  IN CASE target = "tracking" -> RideTrackingMount(w1, id)
       [] target = "driverRide" -> AcceptRideMount(w1, id)
       [] target = "book" -> BookRideMount(w1)
       [] OTHER -> [w1 EXCEPT !.view = target]

\* --------------------------------------------------------------- handlers
\* authStore.login / authStore.logout as useAuth calls them.
authLogin(w, u, tok) ==
  [w EXCEPT !.user = Some(u), !.token = Some(tok), !.isAuthenticated = TRUE]
authLogout(w) ==
  [w EXCEPT !.user = Null, !.token = Null, !.isAuthenticated = FALSE]

\* useAuth.handleLogin up to the await, and after it.
handleLogin(w, u) == Issue(w, Call("login", w.view, u, Null))

handleLoginResume(w, c, res) ==
  IF res = "ok"
  THEN LET w1 == authLogin(Settle(w, c), c.arg, "tok")
       IN [w1 EXCEPT !.conns = connectConns(w1.conns, Get(w1.token)),
                     !.socket = connectSocket(w1.conns, w1.socket)]
  ELSE Settle(w, c)

\* useAuth.handleLogout up to the await, and after it; the change of
\* isAuthenticated re-renders ProtectedRoute, which redirects to /login.
handleLogout(w) == Issue(w, Call("logout", "header", "", Null))

\* A handleLogout whose disconnect would sit in a finally block.
handleLogoutResumeFinally(w, c, res) ==
  IF res = "ok"
  THEN LET w1 == useSocketCleanup(Settle(w, c))
           w2 == authLogout(w1)
       IN IF w2.view = "login" THEN w2 ELSE Navigate(w2, w2.view, w2.rideId)
  ELSE useSocketCleanup(Settle(w, c))

handleLogoutResume(w, c, res) ==
  IF res = "ok"
  THEN LET w1 == useSocketCleanup(Settle(w, c))
           w2 == authLogout(w1)
       IN IF w2.view = "login" THEN w2 ELSE Navigate(w2, w2.view, w2.rideId)
  ELSE Settle(w, c)

\* BookRide.handleEstimateFare.
handleEstimateFare(w) ==
  IF w.pickupLocation = Null \/ w.dropoffLocation = Null THEN w
  ELSE Issue([w EXCEPT !.bookLoading = TRUE], Call("estimateFare", "book", "", Null))

\* A state setter that would act on a component that is gone.
SetIfMountedAlways(c, w, w1) == w1

\* A state setter of a component that is no longer mounted does nothing.
SetIfMounted(c, w, w1) == IF c.mounted THEN w1 ELSE w

\* An estimate that would reset the chosen locations.
handleEstimateFareResumeClears(w, c, res) ==
  LET w1 == Settle(w, c)
  IN IF res = "ok"
     THEN SetIfMounted(c, [w1 EXCEPT !.pickupLocation = Null, !.dropoffLocation = Null],
                       [w1 EXCEPT !.step = 2, !.bookLoading = FALSE,
                                  !.pickupLocation = Null, !.dropoffLocation = Null])
     ELSE SetIfMounted(c, w1, [w1 EXCEPT !.bookLoading = FALSE])

handleEstimateFareResume(w, c, res) ==
  LET w1 == Settle(w, c)
  IN IF res = "ok"
     THEN SetIfMounted(c, w1, [w1 EXCEPT !.step = 2, !.bookLoading = FALSE])
     ELSE SetIfMounted(c, w1, [w1 EXCEPT !.bookLoading = FALSE])

\* BookRide.handleConfirmBooking.
handleConfirmBooking(w) ==
  Issue([w EXCEPT !.bookLoading = TRUE], Call("requestRide", "book", "", Null))

handleConfirmBookingResume(w, c, res, r) ==
  LET w1 == Settle(w, c)
  IN IF res = "ok"
     THEN Navigate([w1 EXCEPT !.currentRide = setCurrentRide(r)], "tracking", r.id)
     ELSE SetIfMounted(c, w1, [w1 EXCEPT !.bookLoading = FALSE])

\* RideTracking.loadRideDetails after the await; data.driver is the driver
\* of data.ride, null while none is assigned.
DriverOfRide(r) ==
  IF r.driver_id = Undef THEN Null ELSE Some([id |-> r.driver_id, location |-> Undef])

loadRideDetailsResume(w, c, res, r) ==
  LET w1 == Settle(w, c)
  IN IF res = "ok"
     THEN SetIfMounted(c, w1, [w1 EXCEPT !.ride = Some(r), !.driver = DriverOfRide(r),
                                         !.loading = FALSE])
     ELSE SetIfMounted(c, w1, [w1 EXCEPT !.loading = FALSE])

\* RideTracking.handleCancelRide.
handleCancelRide(w) == Issue(w, Call("cancelRide", "tracking", w.rideId, Null))

handleCancelRideResume(w, c, res) ==
  IF res = "ok" THEN Navigate(Settle(w, c), "home", "") ELSE Settle(w, c)

\* The two realtime handlers of RideTracking.
\* setRide(prev => ({ ...prev, ...data })): the fields of data override.
MergeRide(prev, data) ==
  LET base == IF prev = Null THEN Ride(Undef, Undef, Undef) ELSE Get(prev)
  IN Some([id |-> base.id,
           status |-> IF data.status # Undef THEN data.status ELSE base.status,
           driver_id |-> IF data.driver_id # Undef THEN data.driver_id ELSE base.driver_id])

\* setDriver(prev => ({ ...prev, location }))
MergeDriver(prev, location) ==
  LET base == IF prev = Null THEN [id |-> Undef, location |-> Undef] ELSE Get(prev)
  IN Some([base EXCEPT !.location = location])

ApplyHandler(w, h, data) ==
  CASE h = "onRideUpdate" -> [w EXCEPT !.ride = MergeRide(w.ride, data)]
    [] h = "onDriverLocation" -> [w EXCEPT !.driver = MergeDriver(w.driver, data.location)]
    [] OTHER -> w

RECURSIVE ApplyHandlers(_, _, _)
ApplyHandlers(w, hs, data) ==
  IF hs = <<>> THEN w ELSE ApplyHandlers(ApplyHandler(w, Head(hs), data), Tail(hs), data)

\* AcceptRide.loadRideDetails after the await.
loadRideDetailsDriverResume(w, c, res, r) ==
  LET w1 == Settle(w, c)
  IN IF res = "ok"
     THEN SetIfMounted(c, w1, [w1 EXCEPT !.drvRide = Some(r), !.drvLoading = FALSE])
     ELSE SetIfMounted(c, w1, [w1 EXCEPT !.drvLoading = FALSE])

\* AcceptRide.handleStartRide: the closure keeps the ride of the render in
\* which the button was clicked.
handleStartRide(w) == Issue(w, Call("startRide", "driverRide", w.rideId, w.drvRide))

\* A handleStartRide whose setRide is not guarded by the outcome of the call.
handleStartRideResumeAlways(w, c, res) ==
  LET w1 == Settle(w, c)
  IN SetIfMounted(c, w1, [w1 EXCEPT !.drvRide = Some([Get(c.ride) EXCEPT !.status = IN_PROGRESS])])

handleStartRideResume(w, c, res) ==
  LET w1 == Settle(w, c)
  IN IF res = "ok"
     THEN SetIfMounted(c, w1, [w1 EXCEPT !.drvRide = Some([Get(c.ride) EXCEPT !.status = IN_PROGRESS])])
     ELSE w1

\* AcceptRide.handleCompleteRide.
handleCompleteRide(w) == Issue(w, Call("completeRide", "driverRide", w.rideId, Null))

handleCompleteRideResume(w, c, res) ==
  IF res = "ok" THEN Navigate(Settle(w, c), "driverDashboard", "")
  ELSE Settle(w, c)

\* ---------------------------------------------------------------- actions
\* An app step: the state becomes w, and lastCall says what the step was.
AppFrame == UNCHANGED <<rideHistory, nearbyDrivers, invoked, received, searchVars, geoVars, routeVars>>
Did(op, arg) == [op |-> op, arg |-> arg]

Step(w) == SetWorld(w) /\ lastCall' = NoCall /\ AppFrame
Resume(w, c, res) == SetWorld(w) /\ lastCall' = Did(c.op, res) /\ AppFrame

CanCall == Cardinality(rest) < MaxRest
Results == {"ok", "fail"}

\* The backend's view of a ride: a driver is assigned from Accepted on.
ServerRide(id, st) ==
  Ride(id, st, IF st \in {REQUESTED, CANCELLED} THEN Undef ELSE "7")

Login ==
  /\ view = "login" /\ ~isAuthenticated /\ CanCall
  /\ ~\E c \in rest : c.op = "login"
  /\ \E u \in UserTypes : Step(handleLogin(World, u))

LoginResume ==
  \E c \in rest, res \in Results :
    /\ c.op = "login"
    /\ res = "ok" => CanConnect
    /\ Resume(handleLoginResume(World, c, res), c, res)

\* The login page leaves for the signed-in user's start page.
EnterApp ==
  /\ view = "login" /\ isAuthenticated
  /\ Step(Navigate(World, IF Get(user) = "passenger" THEN "home" ELSE "driverDashboard", ""))

Logout ==
  /\ view \in {"home", "book", "tracking", "driverDashboard", "driverRide"}
  /\ isAuthenticated /\ CanCall
  /\ Step(handleLogout(World))

LogoutResume ==
  \E c \in rest, res \in Results :
    c.op = "logout" /\ Resume(handleLogoutResume(World, c, res), c, res)

\* PassengerHome: "Book a Ride" and "Track Ride".
HomeBookRide ==
  /\ view = "home"
  /\ Step(Navigate(World, "book", ""))

HomeTrackRide ==
  /\ view = "home" /\ currentRide # Null /\ CanConnect /\ CanCall
  /\ Step(Navigate(World, "tracking", Get(currentRide).id))

\* Header: the logo links to "/" (followed on the passenger's pages).
HeaderHome ==
  /\ view \in {"book", "tracking"}
  /\ Step(Navigate(World, "home", ""))

\* BookRide: a LocationPicker reports a location.
PickLocation ==
  /\ view = "book" /\ step = 1
  /\ \/ Step([World EXCEPT !.pickupLocation = Some("P")])
     \/ Step([World EXCEPT !.dropoffLocation = Some("D")])

EstimateFare ==
  /\ view = "book" /\ step = 1 /\ ~bookLoading /\ CanCall
  /\ pickupLocation # Null /\ dropoffLocation # Null
  /\ Step(handleEstimateFare(World))

EstimateFareResume ==
  \E c \in rest, res \in Results :
    c.op = "estimateFare" /\ Resume(handleEstimateFareResume(World, c, res), c, res)

ChangeLocations ==
  /\ view = "book" /\ step = 2
  /\ Step([World EXCEPT !.step = 1])

ConfirmBooking ==
  /\ view = "book" /\ step = 2 /\ ~bookLoading /\ CanCall
  /\ Step(handleConfirmBooking(World))

ConfirmBookingResume ==
  \E c \in rest, res \in Results, id \in NewRideIds :
    /\ c.op = "requestRide"
    /\ res = "ok" => CanConnect
    /\ Resume(handleConfirmBookingResume(World, c, res, ServerRide(id, REQUESTED)), c, res)

\* RideTracking.
LoadRideDetailsResume ==
  \E c \in rest, res \in Results, st \in RIDE_STATUS :
    /\ c.op = "getRideStatus" /\ c.from = "tracking"
    /\ Resume(loadRideDetailsResume(World, c, res, ServerRide(c.arg, st)), c, res)

TrackingRendered == view = "tracking" /\ ~loading /\ ride # Null

OpenCancelModal ==
  /\ TrackingRendered /\ Get(ride).status \in {REQUESTED, ACCEPTED}
  /\ Step([World EXCEPT !.showCancelModal = TRUE])

CloseCancelModal ==
  /\ TrackingRendered /\ showCancelModal
  /\ Step([World EXCEPT !.showCancelModal = FALSE])

CancelRide ==
  /\ TrackingRendered /\ showCancelModal /\ CanCall
  /\ Step(handleCancelRide(World))

CancelRideResume ==
  \E c \in rest, res \in Results :
    c.op = "cancelRide" /\ Resume(handleCancelRideResume(World, c, res), c, res)

\* The location changes to /ride/<id> of another ride while RideTracking is
\* rendered (the browser's history is traversed): the route's element stays
\* mounted and gets the new parameter.
TrackingChangeRide ==
  /\ view = "tracking" /\ CanCall
  /\ \E id \in RideIds \ {rideId} : Step(RideTrackingRerun(World, id))

\* "Go Home" of the "Ride not found" page.
TrackingGoHome ==
  /\ view = "tracking" /\ ~loading /\ ride = Null
  /\ Step(Navigate(World, "home", ""))

\* Only a socket with listeners is followed: what happens on a socket nobody
\* listens to is invisible to the application.
Listened == {i \in 1..Len(conns) : conns[i].listeners # <<>> /\ conns[i].status # "closed"}

AppFrameNet ==
  UNCHANGED <<currentRide, socket, rest, user, token, isAuthenticated, view, rideId,
              pickupLocation, dropoffLocation, bookLoading, step, ride, driver,
              showCancelModal, loading, drvRide, drvLoading,
              rideHistory, nearbyDrivers, invoked, searchVars, geoVars, routeVars>>

AppTransportUp ==
  /\ \E i \in Listened : TransportUp(i)
  /\ lastCall' = Did("transport", "up") /\ AppFrameNet

AppTransportDown ==
  /\ \E i \in Listened : TransportDown(i)
  /\ lastCall' = Did("transport", "down") /\ AppFrameNet

AppTransportRetry ==
  /\ \E i \in Listened : TransportRetry(i)
  /\ lastCall' = Did("transport", "retry") /\ AppFrameNet

\* The server pushes a ride update: the listeners of the topic run.
RideEvent(id, st) ==
  [status |-> st, driver_id |-> ServerRide(id, st).driver_id, location |-> Undef]

PushRideUpdate ==
  \E i \in Listened, id \in RideIds, st \in RIDE_STATUS :
    /\ conns[i].status = "connected"
    /\ SetWorld(ApplyHandlers(World, Delivered(conns, i, RideTopic(id)), RideEvent(id, st)))
    /\ lastCall' = Did(RideTopic(id), st)
    /\ AppFrame

\* The server pushes the location of a driver.
PushDriverLocation ==
  \E i \in Listened, d \in DriverIds :
    /\ conns[i].status = "connected"
    /\ SetWorld(ApplyHandlers(World, Delivered(conns, i, DriverTopic(d)),
                              [status |-> Undef, driver_id |-> Undef, location |-> "L1"]))
    /\ lastCall' = Did(DriverTopic(d), "L1")
    /\ AppFrame

\* AcceptRide.
DriverOpenRide ==
  /\ view = "driverDashboard" /\ CanCall
  /\ \E id \in RideIds : Step(Navigate(World, "driverRide", id))

LoadRideDetailsDriverResume ==
  \E c \in rest, res \in Results, st \in RIDE_STATUS :
    /\ c.op = "getRideStatus" /\ c.from = "driverRide"
    /\ Resume(loadRideDetailsDriverResume(World, c, res, ServerRide(c.arg, st)), c, res)

DriverRendered == view = "driverRide" /\ ~drvLoading /\ drvRide # Null

StartRide ==
  /\ DriverRendered /\ Get(drvRide).status = ACCEPTED /\ CanCall
  /\ Step(handleStartRide(World))

StartRideResume ==
  \E c \in rest, res \in Results :
    c.op = "startRide" /\ Resume(handleStartRideResume(World, c, res), c, res)

CompleteRide ==
  /\ DriverRendered /\ Get(drvRide).status = IN_PROGRESS /\ CanCall
  /\ Step(handleCompleteRide(World))

CompleteRideResume ==
  \E c \in rest, res \in Results :
    c.op = "completeRide" /\ Resume(handleCompleteRideResume(World, c, res), c, res)

\* ------------------------------------------------------------------ router
\* The paths of the routes of App (part_000 lines 41-102), the two with a
\* :rideId parameter once for every ride.
PublicPaths == {"/login", "/register"}
PassengerPaths == {"/", "/book-ride", "/profile"} \cup {"/ride/" \o id : id \in RideIds}
DriverPaths ==
  {"/driver/dashboard", "/driver/earnings"} \cup {"/driver/ride/" \o id : id \in RideIds}
Paths == PublicPaths \cup PassengerPaths \cup DriverPaths

\* The allowedRoles prop of the ProtectedRoute of a path.
allowedRoles(path) == IF path \in PassengerPaths THEN {"passenger"} ELSE {"driver"}

\* One render of the element of the route of path (ProtectedRoute, part_000
\* lines 22-34): null when it renders the page itself, else the path of the
\* <Navigate to=... replace /> it renders.
RouteElement(auth, usr, path) ==
  IF path \in PublicPaths THEN Null
  ELSE IF ~auth THEN Some("/login")
  ELSE IF usr = Null \/ Get(usr) \notin allowedRoles(path) THEN Some("/")
  ELSE Null

\* A location is requested: a link is followed or an address is entered.
RouteRequest(path) ==
  /\ chain' = <<path>>
  /\ page' = Null

\* The router renders the element of the current location; a Navigate
\* element replaces the location, which is rendered in turn.
RouteRender ==
  /\ chain # <<>> /\ page = Null
  /\ LET element == RouteElement(isAuthenticated, user, chain[Len(chain)])
     IN IF element = Null
        THEN page' = Some(chain[Len(chain)]) /\ chain' = chain
        ELSE /\ Len(chain) <= MaxRedirects
             /\ chain' = Append(chain, Get(element))
             /\ page' = Null

\* ---------------------------------------------------------- LocationPicker
\* The texts the user types.
Texts == {"", "a", "ab", "abc"}

\* debounce(func, wait) of utils/helpers: a call of the debounced function
\* disarms the timer its own closure armed before and arms a new one.  A
\* timer is [inst, seq, text]: the closure it belongs to, the number of the
\* call that armed it and the argument func will get.
Timer(inst, seq, text) == [inst |-> inst, seq |-> seq, text |-> text]

debounceCall(ts, inst, seq, text) ==
  {t \in ts : t.inst # inst} \cup {Timer(inst, seq, text)}

\* const searchLocations = debounce(..., 500) in the component body: every
\* render makes a new debounced function, so the call the effect makes after
\* a change of query is the first and only call of its closure.
searchLocationsInst(n) == n

\* useEffect(() => { searchLocations(query) }, [query])
searchEffect(ts, n, text) == debounceCall(ts, searchLocationsInst(n), n, text)

\* Timers armed with the same delay fire in the order they were armed.
Oldest(ts) == CHOOSE t \in ts : \A u \in ts : t.seq <= u.seq

\* The predictions the provider returns for a request, and [] (no suggestion).
Lookup(seq, text) == [seq |-> seq, text |-> text]
NoSuggestions == <<>>
Predictions(l) == <<l>>

\* onChange of the input: setQuery(e.target.value); the render that follows
\* runs the effect.
Type(text) ==
  /\ text # query /\ calls < MaxTimers
  /\ query' = text
  /\ calls' = calls + 1
  /\ timers' = searchEffect(timers, calls + 1, text)
  /\ UNCHANGED <<suggestions, pickLoading, lookups, geocodes, notified>>

\* A test that would let the empty text through.
emptyQueryNever(text) == FALSE

\* if (!searchQuery)
emptyQuery(text) == text = ""

\* The delay of the oldest timer is over: the body of searchLocations runs.
\* An empty text clears the suggestions; otherwise getPlacePredictions is
\* called, unless the constructor of the service throws.
TimerFires(thrown) ==
  /\ timers # {}
  /\ LET t == Oldest(timers)
     IN /\ timers' = timers \ {t}
        /\ IF emptyQuery(t.text)
           THEN /\ suggestions' = NoSuggestions
                /\ UNCHANGED <<pickLoading, lookups>>
           ELSE IF thrown
           THEN /\ pickLoading' = FALSE
                /\ UNCHANGED <<suggestions, lookups>>
           ELSE /\ pickLoading' = TRUE
                /\ lookups' = lookups \cup {Lookup(t.seq, t.text)}
                /\ UNCHANGED suggestions
  /\ UNCHANGED <<query, calls, geocodes, notified>>

\* The callback of getPlacePredictions (lines 23-28).
placePredictions(cur, l, ok) == IF ok THEN Predictions(l) ELSE cur

PredictionsArrive(l, ok) ==
  /\ l \in lookups
  /\ lookups' = lookups \ {l}
  /\ suggestions' = placePredictions(suggestions, l, ok)
  /\ pickLoading' = FALSE
  /\ UNCHANGED <<query, timers, calls, geocodes, notified>>

\* handleSelectLocation(place): the place is a displayed prediction; its
\* description completes the text that was searched.
Place(l) == [place_id |-> l.text, description |-> "abc"]

\* What the geocoder answers: a status and whether results[0] exists.
GeocodeStatuses == {"OK", "ZERO_RESULTS"}
geocodeMatched(status, hasResult) == status = "OK" /\ hasResult

\* onLocationSelect({ address, lat, lng })
Selection(place) == [kind |-> "select", address |-> place.description]

\* A suggestion is clicked: geocoder.geocode({ placeId }, callback).
SelectSuggestion ==
  /\ suggestions # NoSuggestions
  /\ geocodes' = geocodes \cup {Place(Get(suggestions))}
  /\ UNCHANGED <<query, suggestions, pickLoading, timers, lookups, calls, notified>>

\* The callback of geocode (lines 42-53); a query that changes makes the
\* effect on [query] search again.
GeocodeArrives(place, status, hasResult) ==
  /\ place \in geocodes
  /\ geocodes' = geocodes \ {place}
  /\ IF geocodeMatched(status, hasResult)
     THEN /\ notified' = notified \cup {Selection(place)}
          /\ query' = place.description
          /\ suggestions' = NoSuggestions
          /\ IF place.description # query
             THEN /\ calls < MaxTimers
                  /\ calls' = calls + 1
                  /\ timers' = searchEffect(timers, calls + 1, place.description)
             ELSE UNCHANGED <<calls, timers>>
     ELSE UNCHANGED <<notified, query, suggestions, calls, timers>>
  /\ lastCall' = Did("geocode", IF geocodeMatched(status, hasResult) THEN "match" ELSE "no match")
  /\ UNCHANGED <<pickLoading, lookups>>

\* ----------------------------------------------------------- useGeolocation
\* A GeolocationPosition and a GeolocationPositionError as the browser
\* passes them to the callbacks of watchPosition.
Position(latitude, longitude) == [coords |-> [latitude |-> latitude, longitude |-> longitude]]
Positions == {Position("40.0", "-74.0"), Position("40.1", "-74.1"), Position("40.2", "-74.2")}
PositionErrors ==
  {[code |-> 1, message |-> "User denied Geolocation"],
   [code |-> 2, message |-> "Position unavailable"],
   [code |-> 3, message |-> "Timeout expired"]}

\* A callback the browser made: a reading or an error.
Reading(pos) == [kind |-> "position", position |-> pos, message |-> ""]
Failure(err) == [kind |-> "error", position |-> Position("", ""), message |-> err.message]

\* { lat: position.coords.latitude, lng: position.coords.longitude }
ToLocation(pos) == [lat |-> pos.coords.latitude, lng |-> pos.coords.longitude]

\* A success callback that would set the location only when none is held.
watchSuccessKeepsFirst(cur, pos) == IF cur = Null THEN Some(ToLocation(pos)) ELSE cur

\* The success callback: setCurrentLocation({ lat, lng }).
watchSuccess(cur, pos) == Some(ToLocation(pos))

\* An error that would end the watch.
watchErrorStopsWatch(ws, w) == ws \ {w}

\* The watches after the error callback: it only sets error and loading.
watchError(ws, w) == ws

\* A cleanup that would not release the watch.
clearWatchLeaks(ws, w) == ws

\* navigator.geolocation.clearWatch(watchId)
clearWatch(ws, w) == ws \ {w}

\* The state setters of the hook act only in the mounted component whose
\* effect registered the watch.
OwnWatch(w) == geoMounted /\ watchId = w

\* A component that uses the hook mounts: the effect of lines 9-34 runs.
GeoMount(supported) ==
  /\ ~geoMounted /\ Cardinality(watches) < MaxWatches
  /\ geoMounted' = TRUE
  /\ IF supported
     THEN LET w == Min(1..MaxWatches \ watches)
          IN /\ watchId' = w
             /\ watches' = watches \cup {w}
             /\ geoError' = Null /\ geoLoading' = TRUE
     ELSE /\ geoError' = Some("Geolocation is not supported")
          /\ geoLoading' = FALSE
          /\ UNCHANGED <<watchId, watches>>
  /\ UNCHANGED <<currentLocation, events>>

\* The browser delivers a reading to a registered watch.
GeoPosition(w, pos) ==
  /\ w \in watches /\ Len(events) < MaxEvents
  /\ events' = Append(events, Reading(pos))
  /\ currentLocation' = watchSuccess(currentLocation, pos)
  /\ IF OwnWatch(w)
     THEN geoLoading' = FALSE /\ geoError' = Null
     ELSE UNCHANGED <<geoLoading, geoError>>
  /\ UNCHANGED <<geoMounted, watchId, watches>>

\* The browser reports a failure to a registered watch.
GeoFailure(w, err) ==
  /\ w \in watches /\ Len(events) < MaxEvents
  /\ events' = Append(events, Failure(err))
  /\ watches' = watchError(watches, w)
  /\ IF OwnWatch(w)
     THEN geoError' = Some(err.message) /\ geoLoading' = FALSE
     ELSE UNCHANGED <<geoLoading, geoError>>
  /\ UNCHANGED <<currentLocation, geoMounted, watchId>>

\* The component unmounts: the cleanup of line 36 runs if the effect
\* returned one, and the component's state is gone.
GeoUnmount ==
  /\ geoMounted
  /\ geoMounted' = FALSE
  /\ watches' = IF watchId # 0 THEN clearWatch(watches, watchId) ELSE watches
  /\ watchId' = 0
  /\ geoError' = Null /\ geoLoading' = TRUE
  /\ UNCHANGED <<currentLocation, events>>

\* ------------------------------------------------------------ specifications
StoreInit ==
  /\ currentRide = Null
  /\ rideHistory = <<>>
  /\ nearbyDrivers = {}
  /\ lastCall = NoCall

SockInit ==
  /\ socket = 0
  /\ conns = <<>>
  /\ invoked = <<>>
  /\ received = {}

\* authStore before anybody has signed in.
AuthInit == user = Null /\ token = Null /\ isAuthenticated = FALSE

PagesInit ==
  /\ view = "login" /\ rideId = ""
  /\ pickupLocation = Null /\ dropoffLocation = Null
  /\ bookLoading = FALSE /\ step = 1
  /\ ride = Null /\ driver = Null /\ showCancelModal = FALSE /\ loading = TRUE
  /\ drvRide = Null /\ drvLoading = TRUE
  /\ rest = {}

AppInit == AuthInit /\ PagesInit

\* No location has been requested of the router yet.
RouteInit == chain = <<>> /\ page = Null

appVars == <<user, token, isAuthenticated, view, rideId, pickupLocation, dropoffLocation,
             bookLoading, step, ride, driver, showCancelModal, loading, drvRide, drvLoading,
             rest>>

\* The picker is mounted: the effect has run once, with the empty query.
SearchInit ==
  /\ query = "" /\ suggestions = NoSuggestions /\ pickLoading = FALSE
  /\ calls = 1 /\ timers = searchEffect({}, 1, "") /\ lookups = {}
  /\ geocodes = {} /\ notified = {}

\* No component uses the geolocation hook yet.
GeoInit ==
  /\ currentLocation = Null /\ geoError = Null /\ geoLoading = TRUE
  /\ geoMounted = FALSE /\ watchId = 0 /\ watches = {} /\ events = <<>>

vars == <<storeVars, lastCall, sockVars, appVars, searchVars, geoVars, routeVars>>

Init == StoreInit /\ SockInit /\ AppInit /\ SearchInit /\ GeoInit /\ RouteInit

\* One LocationPicker on its own.
NextSearch ==
  \/ \E text \in Texts : Type(text) /\ UNCHANGED <<storeVars, lastCall, sockVars, appVars, geoVars, routeVars>>
  \/ \E thrown \in BOOLEAN : TimerFires(thrown) /\ UNCHANGED <<storeVars, lastCall, sockVars, appVars, geoVars, routeVars>>
  \/ \E l \in lookups, ok \in BOOLEAN :
       PredictionsArrive(l, ok) /\ UNCHANGED <<storeVars, lastCall, sockVars, appVars, geoVars, routeVars>>
  \/ SelectSuggestion /\ UNCHANGED <<storeVars, lastCall, sockVars, appVars, geoVars, routeVars>>
  \/ \E place \in geocodes, status \in GeocodeStatuses, hasResult \in BOOLEAN :
       /\ status = "ZERO_RESULTS" => ~hasResult
       /\ GeocodeArrives(place, status, hasResult)
       /\ UNCHANGED <<storeVars, sockVars, appVars, geoVars, routeVars>>

SpecSearch == Init /\ [][NextSearch]_vars

\* One component that uses useGeolocation, on its own.
GeoFrame == UNCHANGED <<storeVars, lastCall, sockVars, appVars, searchVars, routeVars>>

NextGeo ==
  \/ \E supported \in BOOLEAN : GeoMount(supported) /\ GeoFrame
  \/ \E w \in watches, pos \in Positions : GeoPosition(w, pos) /\ GeoFrame
  \/ \E w \in watches, err \in PositionErrors : GeoFailure(w, err) /\ GeoFrame
  \/ GeoUnmount /\ GeoFrame

SpecGeo == Init /\ [][NextGeo]_vars

\* The application: pages, hooks, store and socket service together.
Next ==
  \/ Login \/ LoginResume \/ EnterApp \/ Logout \/ LogoutResume
  \/ HomeBookRide \/ HomeTrackRide \/ HeaderHome
  \/ PickLocation \/ EstimateFare \/ EstimateFareResume \/ ChangeLocations
  \/ ConfirmBooking \/ ConfirmBookingResume
  \/ LoadRideDetailsResume \/ OpenCancelModal \/ CloseCancelModal
  \/ CancelRide \/ CancelRideResume \/ TrackingGoHome
  \/ DriverOpenRide \/ LoadRideDetailsDriverResume
  \/ StartRide \/ StartRideResume \/ CompleteRide \/ CompleteRideResume
  \/ AppTransportUp \/ AppTransportDown \/ AppTransportRetry
  \/ PushRideUpdate \/ PushDriverLocation

Spec == Init /\ [][Next]_vars

\* A passenger who books a ride and follows it on RideTracking, the location
\* changing between the rides' pages while the page is rendered.
NextTracking ==
  \/ Login \/ LoginResume \/ EnterApp
  \/ HomeBookRide \/ PickLocation \/ EstimateFare \/ EstimateFareResume
  \/ ConfirmBooking \/ ConfirmBookingResume
  \/ LoadRideDetailsResume \/ TrackingChangeRide \/ HeaderHome \/ HomeTrackRide
  \/ AppTransportUp \/ PushRideUpdate \/ PushDriverLocation

SpecTracking == Init /\ [][NextTracking]_vars

\* The router on its own, for every authentication state and role.
InitRoute ==
  /\ StoreInit /\ SockInit /\ PagesInit /\ SearchInit /\ GeoInit /\ RouteInit
  /\ isAuthenticated \in BOOLEAN
  /\ user \in IF isAuthenticated THEN {Some(u) : u \in UserTypes} ELSE {Null}
  /\ token = IF isAuthenticated THEN Some("tok") ELSE Null

RouteFrame == UNCHANGED <<storeVars, lastCall, sockVars, appVars, searchVars, geoVars>>

NextRoute ==
  \/ \E path \in Paths : RouteRequest(path) /\ RouteFrame
  \/ RouteRender /\ RouteFrame

SpecRoute == InitRoute /\ [][NextRoute]_vars

\* The ride store driven by an arbitrary client of its contract.
NextStore ==
  \/ \E r \in Rides : StoreSetCurrentRide(r) /\ UNCHANGED <<sockVars, appVars, searchVars, geoVars, routeVars>>
  \/ \E s \in RIDE_STATUS : StoreUpdateRideStatus(s) /\ UNCHANGED <<sockVars, appVars, searchVars, geoVars, routeVars>>
  \/ \E d \in SUBSET DriverIds : StoreSetNearbyDrivers(d) /\ UNCHANGED <<sockVars, appVars, searchVars, geoVars, routeVars>>
  \/ \E r \in Rides : StoreAddToHistory(r) /\ UNCHANGED <<sockVars, appVars, searchVars, geoVars, routeVars>>
  \/ StoreClearCurrentRide /\ UNCHANGED <<sockVars, appVars, searchVars, geoVars, routeVars>>

SpecStore == Init /\ [][NextStore]_vars

\* The socket service driven by an arbitrary client of its contract.
NextSocket ==
  \/ \E t \in Tokens : SockConnect(t) /\ UNCHANGED <<storeVars, lastCall, appVars, searchVars, geoVars, routeVars>>
  \/ SockDisconnect /\ UNCHANGED <<storeVars, lastCall, appVars, searchVars, geoVars, routeVars>>
  \/ \E t \in SockTopics, h \in Handlers : SockOn(t, h) /\ UNCHANGED <<storeVars, lastCall, appVars, searchVars, geoVars, routeVars>>
  \/ \E t \in SockTopics : SockOff(t) /\ UNCHANGED <<storeVars, lastCall, appVars, searchVars, geoVars, routeVars>>
  \/ \E e \in SockEvents : SockEmit(e) /\ UNCHANGED <<storeVars, lastCall, appVars, searchVars, geoVars, routeVars>>
  \/ SockTransportUp /\ UNCHANGED <<storeVars, lastCall, appVars, searchVars, geoVars, routeVars>>
  \/ SockTransportDown /\ UNCHANGED <<storeVars, lastCall, appVars, searchVars, geoVars, routeVars>>
  \/ SockTransportRetry /\ UNCHANGED <<storeVars, lastCall, appVars, searchVars, geoVars, routeVars>>
  \/ SockDeliver /\ UNCHANGED <<storeVars, lastCall, appVars, searchVars, geoVars, routeVars>>

SpecSocket == Init /\ [][NextSocket]_vars

\* ------------------------------------------------------------------ claims
\* The order of the lifecycle: Requested < Accepted < InProgress < Completed.
Rank(st) ==
  CASE st = REQUESTED -> 1 [] st = ACCEPTED -> 2 [] st = IN_PROGRESS -> 3
    [] st = COMPLETED -> 4 [] OTHER -> 0

\* A move from status a to status b that goes backwards in the order, or
\* that reaches Cancelled from a status other than Requested or Accepted.
Regresses(a, b) ==
  \/ Rank(a) > 0 /\ Rank(b) > 0 /\ Rank(b) < Rank(a)
  \/ b = CANCELLED /\ a \notin {REQUESTED, ACCEPTED, CANCELLED}

\* C1: a call of updateRideStatus on a non-empty current ride never moves
\* its status backwards in Requested < Accepted < InProgress < Completed and
\* makes it Cancelled only from Requested or Accepted.
C1_StatusNeverRegresses ==
  [][lastCall'.op = "updateRideStatus" /\ currentRide # Null
       => /\ currentRide' # Null
          /\ ~Regresses(Get(currentRide).status, Get(currentRide').status)]_vars

\* C2: a call of updateRideStatus whose target is out of order relative to
\* the current status is rejected: the current ride is unchanged by it.
C2_OutOfOrderUpdateRejected ==
  [][(/\ lastCall'.op = "updateRideStatus" /\ currentRide # Null
      /\ Regresses(Get(currentRide).status, lastCall'.arg))
       => currentRide' = currentRide]_vars

\* The ride the tracking view displays is in progress.
TrackingInProgress == view = "tracking" /\ ride # Null /\ Get(ride).status = IN_PROGRESS

\* C3: cancelling while the displayed ride is InProgress is rejected: no
\* cancelRide call is sent, and the ride the view holds stays as it is.
C3_CancelInProgressRejected ==
  [][TrackingInProgress
       => /\ \A c \in rest' \ rest : c.op # "cancelRide"
          /\ lastCall'.op = "cancelRide" => ride' = ride]_vars

\* C4: on every connection each topic has at most one handler, however
\* often a handler was subscribed to it.
C4_OneHandlerPerTopic ==
  \A i \in 1..Len(conns) : \A topic \in SockTopics :
    Len(HandlersFor(conns[i].listeners, topic)) <= 1

\* C5: at most one realtime connection is open at any time.
C5_AtMostOneConnection == Cardinality(LiveConns) <= 1

\* C6: a place lookup is sent for a search text only if no later search
\* call was made while its delay ran (the later call restarts the delay).
C6_OnlyLastSearchReachesProvider ==
  [][\A l \in lookups' \ lookups : ~\E t \in timers : t.seq > l.seq]_vars

\* C7: a response to a request older than the one whose predictions are
\* displayed does not change the displayed suggestions.
C7_StaleResponseDiscarded ==
  [][\A l \in lookups \ lookups' :
       suggestions # NoSuggestions /\ Get(suggestions).seq > l.seq
         => suggestions' = suggestions]_vars

\* The ride the store holds is Requested and a connected socket has a
\* handler on its ride_<id>_update topic.
HeldRideSubscribed ==
  /\ currentRide # Null /\ Get(currentRide).status = REQUESTED
  /\ \E i \in Listened : Delivered(conns, i, RideTopic(Get(currentRide).id)) # <<>>

\* C8: once requestRide has succeeded, an Accepted event on the topic of
\* the ride the store holds moves the held ride to Accepted.
C8_AcceptedEventMovesHeldRide ==
  [][HeldRideSubscribed /\ lastCall' = Did(RideTopic(Get(currentRide).id), ACCEPTED)
       => currentRide' # Null /\ Get(currentRide').status = ACCEPTED]_vars

\* The topics of a ride.
TopicsOf(r) == {RideTopic(r.id), DriverTopic(r.driver_id)}

\* C9: when completeRide or cancelRide has succeeded, the current ride of
\* the store is cleared and no open connection listens to its topics.
C9_TerminalSuccessClearsRide ==
  [][lastCall' \in {Did("completeRide", "ok"), Did("cancelRide", "ok")}
       => /\ currentRide' = Null
          /\ currentRide # Null =>
               \A i \in 1..Len(conns') : \A topic \in TopicsOf(Get(currentRide)) :
                 Live(conns'[i]) => HandlersFor(conns'[i].listeners, topic) = <<>>]_vars

LifecycleOps == {"requestRide", "startRide", "completeRide", "cancelRide"}

\* C10: the step that handles the failure of requestRide, startRide,
\* completeRide or cancelRide changes neither the store nor the ride a view
\* displays, and does not navigate.
C10_FailureMutatesNothing ==
  [][lastCall'.op \in LifecycleOps /\ lastCall'.arg = "fail"
       => UNCHANGED <<currentRide, rideHistory, ride, driver, drvRide, view, rideId>>]_vars

\* startRide failed on the page of an accepted ride.
C10_Witness ==
  /\ lastCall = Did("startRide", "fail")
  /\ DriverRendered /\ Get(drvRide).status = ACCEPTED

\* The step is a call of disconnect().
IsDisconnect == conns' = disconnectConns(conns, socket) /\ socket' = disconnectSocket(socket)

\* C11: after disconnect() no connection is open and no handler is
\* registered on an open connection; a second disconnect() changes nothing.
C11_DisconnectTearsDownAll ==
  [][IsDisconnect
       => /\ LiveConns' = {}
          /\ disconnectConns(conns', socket') = conns'
          /\ disconnectSocket(socket') = socket']_vars

\* C12: a packet emitted while the socket was not connected never reaches
\* the server, neither at once nor after a later connection.
C12_EmitWhileNotConnectedDropped == \A p \in received : p.connected

\* C13: the loss of the transport of a connection, and its re-establishment,
\* leave the handlers registered on every connection unchanged and fail no
\* call in flight.
C13_TransportLossKeepsHandlers ==
  [][lastCall'.op = "transport"
       => /\ Len(conns') = Len(conns)
          /\ \A i \in 1..Len(conns) : conns'[i].listeners = conns[i].listeners
          /\ rest' = rest]_vars

\* The transport has just been lost while handlers are registered and a call
\* is in flight.
C13_Witness ==
  /\ lastCall = Did("transport", "down")
  /\ rest # {}
  /\ \E i \in 1..Len(conns) : conns[i].status = "disconnected" /\ conns[i].listeners # <<>>

\* The readings among the callbacks made so far, and the last callback.
ReadingIndexes == {k \in 1..Len(events) : events[k].kind = "position"}
ErrorIndexes == {k \in 1..Len(events) : events[k].kind = "error"}
LastEvent(evs) == evs[Len(evs)]
Called(kind) == Len(events') = Len(events) + 1 /\ LastEvent(events').kind = kind

\* C14: once a reading was delivered, the current location is the location
\* of the last reading delivered.
C14_LocationIsLastReading ==
  ReadingIndexes # {} =>
    LET last == CHOOSE k \in ReadingIndexes : \A j \in ReadingIndexes : j <= k
    IN currentLocation = Some(ToLocation(events[last].position))

\* The three readings (40.0,-74.0), (40.1,-74.1), (40.2,-74.2) in sequence.
C14_Witness ==
  /\ events = <<Reading(Position("40.0", "-74.0")), Reading(Position("40.1", "-74.1")),
                Reading(Position("40.2", "-74.2"))>>
  /\ currentLocation = Some([lat |-> "40.2", lng |-> "-74.2"])

\* C15: a geolocation failure is reported in error, leaves the current
\* location and the watch as they are, and a reading delivered after a
\* failure still overwrites the current location and clears the error.
C15_FailureKeepsWatchAndLocation ==
  [][/\ Called("error") =>
          /\ currentLocation' = currentLocation
          /\ watches' = watches /\ watches' # {}
          /\ geoError' = Some(LastEvent(events').message)
     /\ Called("position") /\ ErrorIndexes # {} =>
          /\ currentLocation' = Some(ToLocation(LastEvent(events').position))
          /\ geoError' = Null]_vars

\* A reading was delivered after a failure had been reported.
C15_Witness ==
  /\ Len(events) >= 2
  /\ events[Len(events) - 1].kind = "error" /\ LastEvent(events).kind = "position"
  /\ currentLocation = Some(ToLocation(LastEvent(events).position))
  /\ geoMounted /\ geoError = Null

\* C16: when the component is gone no watch is registered, releasing the
\* watch twice is the same as once, and while no component is mounted no
\* callback changes the current location, the error or the loading flag.
C16_StopIsFinal ==
  [][/\ ~geoMounted' => watches' = {}
     /\ geoMounted /\ ~geoMounted' => clearWatch(watches', watchId) = watches'
     /\ ~geoMounted /\ ~geoMounted' =>
          UNCHANGED <<currentLocation, geoError, geoLoading>>]_vars

\* The component was torn down after a failure, with callbacks still possible.
C16_Witness ==
  /\ ~geoMounted /\ watches = {}
  /\ events # <<>> /\ LastEvent(events).kind = "error" /\ Len(events) < MaxEvents

\* The delay of a search with the empty text is over.
EmptySearchRuns ==
  timers # {} /\ Oldest(timers).text = "" /\ timers' = timers \ {Oldest(timers)}

\* C17: a search with the empty text empties the suggestions and sends no
\* lookup to the provider.
C17_EmptySearchShortCircuits ==
  [][EmptySearchRuns => suggestions' = NoSuggestions /\ lookups' = lookups]_vars

\* The text was typed and erased again, and every search has run.
C17_Witness ==
  /\ calls >= 3 /\ query = "" /\ timers = {}
  /\ suggestions = NoSuggestions /\ lookups = {}

\* The geocoder answers a request without a match.
NoMatchArrives == geocodes' # geocodes /\ lastCall' = Did("geocode", "no match")

\* C18: when the geocoder finds no match for the chosen suggestion, the
\* caller is told of the failure and no location is selected: query and
\* suggestions stay as they are.
C18_NoMatchReported ==
  [][NoMatchArrives
       => /\ \E n \in notified' \ notified : n.kind = "error"
          /\ ~\E n \in notified' \ notified : n.kind = "select"
          /\ query' = query /\ suggestions' = suggestions]_vars

\* C19: after updateRideStatus(status), a second updateRideStatus(status)
\* leaves the store as the first one left it.
C19_SameStatusTwiceIsNoOp ==
  [][lastCall'.op = "updateRideStatus"
       => /\ updateRideStatus(currentRide', lastCall'.arg) = currentRide'
          /\ UNCHANGED <<rideHistory, nearbyDrivers>>]_vars

\* A status was applied to a ride the store holds.
C19_Witness ==
  /\ lastCall.op = "updateRideStatus"
  /\ currentRide # Null /\ Get(currentRide).status = lastCall.arg

\* The step sends estimateFare, or handles its outcome.
EstimateFareStep ==
  \/ \E c \in rest' \ rest : c.op = "estimateFare" /\ c.mounted
  \/ lastCall'.op = "estimateFare" /\ rest' # rest

\* C20: estimateFare, whether it succeeds or fails, changes neither the
\* ride store, nor the chosen pickup and dropoff locations, nor the
\* connections and the handlers registered on them.
C20_EstimateFareIsPure ==
  [][EstimateFareStep
       => UNCHANGED <<currentRide, rideHistory, nearbyDrivers,
                      pickupLocation, dropoffLocation, socket, conns>>]_vars

\* The fare was estimated for the chosen locations.
C20_Witness ==
  /\ lastCall = Did("estimateFare", "ok")
  /\ view = "book" /\ step = 2
  /\ pickupLocation # Null /\ dropoffLocation # Null

\* The status a view displays: RideTracking's ride, AcceptRide's ride.
StatusOf(r) == IF r = Null THEN Undef ELSE Get(r).status

\* Status b is out of order after the status a view displays in r.
StaleFor(r, b) == StatusOf(r) \in RIDE_STATUS /\ Regresses(StatusOf(r), b)

\* C21: the step that applies the result of getRideStatus or startRide never
\* moves the status a view displays backwards in the order, whatever a
\* realtime event has applied before the result arrived.
C21_RestResultNeverRegresses ==
  [][lastCall'.op \in {"getRideStatus", "startRide"}
       => /\ ~StaleFor(ride, StatusOf(ride'))
          /\ ~StaleFor(drvRide, StatusOf(drvRide'))]_vars

\* The step delivers an event on the update topic of the tracked ride.
TrackedRideEvent == view = "tracking" /\ lastCall'.op = RideTopic(rideId)

\* C22: an event on ride_<id>_update that carries a status earlier in the
\* order than the one the tracking view displays leaves the displayed ride
\* unchanged.
C22_StaleEventIgnored ==
  [][TrackedRideEvent /\ StaleFor(ride, lastCall'.arg) => ride' = ride]_vars

\* The step delivers a location event of driver d, and the event is applied:
\* the driver the tracking view displays changes.
LocationApplied(d) == lastCall'.op = DriverTopic(d) /\ driver' # driver

\* C23: a driver-location event is applied only while the tracking view
\* holds a ride whose driver is the event's driver and which is neither
\* Completed nor Cancelled.
C23_LocationOnlyForActiveRide ==
  [][\A d \in DriverIds :
       LocationApplied(d)
         => /\ ride # Null /\ Get(ride).driver_id = d
            /\ Get(ride).status \notin {COMPLETED, CANCELLED}]_vars

\* A ride with a driver is displayed on the tracking page of its route, on a
\* socket that is connected.
TrackedWithDriver ==
  /\ view = "tracking" /\ ride # Null /\ Get(ride).driver_id \in DriverIds
  /\ Get(ride).id = rideId
  /\ socket # 0 /\ conns[socket].status = "connected"

\* C24: while a ride with an assigned driver d is tracked, a handler for
\* driver_<d>_location is registered on the connection, so that the location
\* events of d reach the view.
C24_DriverTopicSubscribed ==
  TrackedWithDriver
    => Delivered(conns, socket, DriverTopic(Get(ride).driver_id)) # <<>>

\* A getRideStatus call that was superseded while in flight: the page that
\* made it was left, or the rideId of its route is no longer the one asked.
Superseded(c) == c.op = "getRideStatus" /\ (~c.mounted \/ c.arg # rideId)

\* C26: the response of a superseded getRideStatus call is not applied to
\* the ride or the driver a page displays.
C26_SupersededLookupDiscarded ==
  [][\A c \in rest \ rest' :
       Superseded(c) /\ lastCall'.op = "getRideStatus"
         => UNCHANGED <<ride, driver, drvRide>>]_vars

\* C27: while a user is signed in the socket service holds a connection that
\* is not torn down, RideTracking being mounted or not; while nobody is
\* signed in no connection exists.
C27_ConnectionFollowsAuth ==
  /\ isAuthenticated => socket # 0 /\ Live(conns[socket])
  /\ ~isAuthenticated => LiveConns = {}

\* C28: when the logout call fails, the socket and the auth state are left
\* as they are; when it succeeds, the socket the service holds is closed and
\* released and the auth state is cleared.
C28_LogoutAllOrNothing ==
  [][/\ lastCall' = Did("logout", "fail")
          => UNCHANGED <<socket, conns, user, token, isAuthenticated>>
     /\ lastCall' = Did("logout", "ok")
          => /\ socket' = 0
             /\ socket # 0 => conns'[socket].status = "closed"
             /\ user' = Null /\ token' = Null /\ ~isAuthenticated']_vars

\* The logout call has failed for a signed-in user whose socket is open.
C28_Witness ==
  /\ lastCall = Did("logout", "fail")
  /\ isAuthenticated /\ socket # 0 /\ Live(conns[socket])

\* The requestRide calls in flight.
RideRequests == {c \in rest : c.op = "requestRide"}

\* C29: at most one requestRide call is in flight, and while the call of the
\* mounted booking page is in flight its loading flag is true.
C29_OneRideRequestInFlight ==
  /\ Cardinality(RideRequests) <= 1
  /\ \A c \in RideRequests : c.mounted => bookLoading

\* C30: the redirects of a request end at a rendered page: no location
\* occurs twice among the locations one request leads through (the element
\* of a location depends only on the location, the authentication state and
\* the role, so a location met again is met forever).
C30_RedirectsTerminate ==
  \A i, j \in 1..Len(chain) : i # j => chain[i] # chain[j]

\* A cancelRide call has just succeeded while a startRide call is in flight.
CancelledDuringStart ==
  /\ lastCall = Did("cancelRide", "ok")
  /\ \E c \in rest : c.op = "startRide"

====
